---------------------------- MODULE Spec2Model ----------------------------
(***************************************************************************)
(* A model of the OpenMP accelerator of alpaka                             *)
(* (include/alpaka/AccOpenMp.hpp): the kernel executor's dispatch loop,    *)
(* the block-thread index derivation, the block barrier and the lock-based *)
(* atomic operations.                                                      *)
(*                                                                         *)
(* Vectors vec<3u> are tuples <<x, y, z>>: the C++ component [i] is the    *)
(* TLA+ component [i + 1].                                                 *)
(***************************************************************************)
EXTENDS Integers, Sequences, FiniteSets, Bags, TLC

(***************************************************************************)
(* Bounds of the model.                                                    *)
(***************************************************************************)
\* Largest extent of one axis of the grid (in blocks) a caller requests.
MaxGridExtent == 2
\* Largest number of blocks of a requested grid.
MaxBlocks == 4
\* Largest extent of one axis of a block (in kernels/threads) a caller requests.
MaxBlockExtent == 2
\* The thread limit the OpenMP runtime reports (1024 requested in the source).
MaxThreads == 4
\* Largest axis extent of the index derivation checked as a pure function.
MaxIdxExtent == 8
\* Number of threads that invoke atomicOp concurrently.
NumAtomicThreads == 3
\* Number of addresses the concurrent atomicOp invocations target.
NumAtomicAddrs == 2
\* Number of allocBlockSharedMem calls the shared-memory kernel makes.
NumAllocCalls == 2
\* Largest UiNumElements * sizeof(T) of allocBlockSharedMem<T, UiNumElements>.
MaxSegmentBytes == 2
\* Largest dimensionality dim::Dim<TView> of a memory view.
MaxDim == 3
\* Largest extent of one axis of a memory view.
MaxViewExtent == 3
\* Largest sizeof(elem::Elem<TView>).
MaxSizeofElem == 3
\* Width in bits of idx::Idx<TView>, an unsigned integer type.
IdxBits == 6
\* Largest extent of one axis of a buffer whose pitch in elements is requested.
MaxRowExtent == 86
\* Width in bits of UInt.
UIntBits == 16
\* Number of dereferences outside the view that print is followed through.
MaxStrayReads == 2

VARIABLES
    \* ---- the caller
    pending,                \* the launches the caller is still going to make
    launches,               \* number of calls of KernelExecutor::operator() so far
    thrown,                 \* the last call ended in std::runtime_error
    pre,                    \* the accelerator's fields at the last call, and its request
    kernel,                 \* the kernel the executor is instantiated with
    tmpl,                   \* the arguments <T, UiNumElements> of its allocBlockSharedMem
    original,               \* the accelerator this one was copy-constructed from, if any
    \* ---- AccOpenMp (one accelerator instance)
    m_WorkSize,             \* TInterfacedWorkSize base: [grid, block]
    m_v3uiGridBlockIdx,     \* index of the currently executed block
    m_vvuiSharedMem,        \* block shared memory: sequence of segments [data, size, content]
    m_vuiExternalSharedMem, \* size of the external block shared memory
    externStore,            \* its storage: [data, capacity], data 0 where there is none
    heapNext,               \* the address the next allocation returns
    \* ---- KernelExecutor::operator()
    epc,                    \* position of the executing (master) thread
    bx, by, bz,             \* the loop counters
    \* ---- the OpenMP runtime
    nthreads_var,           \* team size the runtime uses where num_threads is no positive value
    \* ---- the team of one '#pragma omp parallel' region
    pc,                     \* pc[t]: position of the thread omp_get_thread_num() = t
    calls,                  \* calls[t]: barrier calls thread t has made in this region
    passed,                 \* passed[t]: barrier calls thread t has returned from
    barCount,               \* threads waiting in the barrier
    barGen,                 \* barrier episodes completed in this region
    ret,                    \* ret[t]: the pointers allocBlockSharedMem returned to thread t
    blockBase,              \* length of m_vvuiSharedMem when the region started
    \* ---- what the kernel body does
    slot,                   \* the shared array: the thread numbers written so far
    seen,                   \* seen[t]: the array as thread t read it after the barrier
    kernelCalls,            \* bag of <<grid-block index, block-kernel index>> invoked
    externPtrs,             \* the pointers getBlockSharedExternMem returned in this launch
    output,                 \* the output array: <<offset, value>> for each written offset
    args,                   \* the caller's argument: its value category and its value
    argSeen,                \* the argument values the invocations of this launch received
    \* ---- atomicOp
    m_ompLock,              \* the holder of the lock / critical section: {t}, or NoThread
    addr,                   \* addr[a]: the value stored at address a
    atarget,                \* atarget[t]: the address thread t calls atomicOp with
    apc,                    \* apc[t]: position of thread t inside atomicOp
    aop,                    \* aop[t]: the operation (TOp, value) thread t invokes
    old,                    \* old[t]: the local 'old'
    \* ---- IndexOpenMp::getIdxBlockKernel as a function
    ix_e, ix_t, ix_c,       \* block extent, omp_get_thread_num(), returned index
    \* ---- the memory view functions
    view,                   \* the TView: [extent, sizeofElem]
    TIdx,                   \* the template argument TIdx / TuiIdx
    TVal,                   \* the width in bits of the template argument TVal
    NDEBUG,                 \* the build disables assert
    pitchRet,               \* what the pitch function under examination returned
    \* ---- mem::view::print
    frames,                 \* the active calls of detail::Print<TDim>::print: [TDim, ptr, i]
    os,                     \* the std::ostream: the strings and elements written so far
    reads,                  \* the byte offsets, from getPtrNative(view), dereferenced so far
    fault                   \* a dereference outside the view ended the process

vars == <<pending, launches, thrown, pre, kernel, tmpl, original, nthreads_var, m_WorkSize,
          m_v3uiGridBlockIdx, m_vvuiSharedMem, m_vuiExternalSharedMem, externStore,
          heapNext, epc, bx, by, bz, pc, calls, passed, barCount, barGen, ret,
          blockBase, slot, seen, kernelCalls, externPtrs, output, args, argSeen,
          m_ompLock, addr, atarget,
          apc, aop, old, ix_e, ix_t, ix_c,
          view, TIdx, TVal, NDEBUG, pitchRet, frames, os, reads, fault>>

callerVars == <<pending, launches, thrown, pre, kernel, tmpl, original, nthreads_var>>
accVars    == <<m_WorkSize, m_v3uiGridBlockIdx, m_vvuiSharedMem, m_vuiExternalSharedMem,
                externStore, heapNext>>
loopVars   == <<epc, bx, by, bz>>
teamVars   == <<pc, calls, passed, barCount, barGen, ret, blockBase>>
kernelVars == <<slot, seen, kernelCalls, externPtrs, output, args, argSeen>>
atomicVars == <<m_ompLock, addr, atarget, apc, aop, old>>
indexVars  == <<ix_e, ix_t, ix_c>>
viewVars   == <<view, TIdx, TVal, NDEBUG, pitchRet>>
printVars  == <<frames, os, reads, fault>>

(***************************************************************************)
(* Vectors and the work size.                                              *)
(***************************************************************************)
Vec3(S) == S \X S \X S

\* vec<3u>(): every component zero.
ZeroVec == <<0, 0, 0>>

\* IWorkSize::getSize<..., Linear>(): the product of the extents.
Prod(v) == v[1] * v[2] * v[3]

getSizeBlockKernels == m_WorkSize.block
getSizeGridBlocks == m_WorkSize.grid
getSizeBlockKernelsLinear == Prod(m_WorkSize.block)

\* AccOpenMp::getSizeBlockKernelsLinearMax(): omp_get_max_threads() after
\* omp_set_num_threads(1024).
getSizeBlockKernelsLinearMax == MaxThreads

\* The requests a caller makes.
GridExtents == {g \in Vec3(0..MaxGridExtent) : Prod(g) <= MaxBlocks}
BlockExtents == Vec3(0..MaxBlockExtent)
WorkSizes == [grid : GridExtents, block : BlockExtents]

\* BlockSharedExternMemSizeBytes<TAcceleratedKernel>: supplied by the kernel;
\* this kernel asks for one byte per kernel of the block.
getBlockSharedExternMemSizeBytes(v3uiSizeBlockKernels) == Prod(v3uiSizeBlockKernels)

NoThread == {}
NoTeam == [t \in {} |-> 0]
Team == DOMAIN pc


(***************************************************************************)
(* IndexOpenMp.                                                            *)
(***************************************************************************)
\* Unsigned division and remainder. A zero divisor is undefined behaviour:
\* where the instruction does not trap it yields quotient 0 and leaves the
\* dividend as the remainder; the trap is an outcome of KernelBegin.
Div(a, b) == IF b = 0 THEN 0 ELSE a \div b
Mod(a, b) == IF b = 0 THEN a ELSE a % b

\* A slip in the y component: divides by the y extent instead of the x extent.
getIdxBlockKernel_wrongDivisor(t, v3uiSizeBlockKernels) ==
    << Mod(Mod(t, v3uiSizeBlockKernels[2] * v3uiSizeBlockKernels[1]), v3uiSizeBlockKernels[1]),
       Div(Mod(t, v3uiSizeBlockKernels[2] * v3uiSizeBlockKernels[1]), v3uiSizeBlockKernels[2]),
       Div(t, v3uiSizeBlockKernels[2] * v3uiSizeBlockKernels[1]) >>

\* A slip in the x component: the remainder by the plane size is not reduced
\* by the x extent.
getIdxBlockKernel_noRowReduce(t, v3uiSizeBlockKernels) ==
    << Mod(t, v3uiSizeBlockKernels[2] * v3uiSizeBlockKernels[1]),
       Div(Mod(t, v3uiSizeBlockKernels[2] * v3uiSizeBlockKernels[1]), v3uiSizeBlockKernels[1]),
       Div(t, v3uiSizeBlockKernels[2] * v3uiSizeBlockKernels[1]) >>

\* IndexOpenMp::getIdxBlockKernel() for t = omp_get_thread_num().
getIdxBlockKernel(t, v3uiSizeBlockKernels) ==
    << Mod(Mod(t, v3uiSizeBlockKernels[2] * v3uiSizeBlockKernels[1]), v3uiSizeBlockKernels[1]),
       Div(Mod(t, v3uiSizeBlockKernels[2] * v3uiSizeBlockKernels[1]), v3uiSizeBlockKernels[1]),
       Div(t, v3uiSizeBlockKernels[2] * v3uiSizeBlockKernels[1]) >>

\* The index of the first block whatever block is executed.
getIdxGridBlock_first == ZeroVec

\* IndexOpenMp::getIdxGridBlock().
getIdxGridBlock ==
    IF original.copied THEN original.m_v3uiGridBlockIdx ELSE m_v3uiGridBlockIdx

\* IndexOpenMp::m_WorkSize: the work size getIdxBlockKernel reads, through a
\* reference bound like that of the grid-block index.
IndexWorkSize ==
    IF original.copied THEN original.m_WorkSize ELSE m_WorkSize

(***************************************************************************)
(* KernelExecutor::operator(): bind, validate, prepare.                    *)
(***************************************************************************)
\* The validation accepts nothing that reaches the maximum.
Exceeds_orEqual(uiNumKernelsPerBlock, uiMaxKernelsPerBlock) ==
    uiNumKernelsPerBlock >= uiMaxKernelsPerBlock

\* The validation is missing.
Exceeds_never(uiNumKernelsPerBlock, uiMaxKernelsPerBlock) == FALSE

\* if(uiNumKernelsPerBlock > uiMaxKernelsPerBlock)
Exceeds(uiNumKernelsPerBlock, uiMaxKernelsPerBlock) ==
    uiNumKernelsPerBlock > uiMaxKernelsPerBlock

\* getSize<Block, Kernels, D3>() after the assignment of the work size: the
\* block extent of this call.
BoundBlockExtent_stale(workSize) == m_WorkSize.block

BoundBlockExtent(workSize) == workSize.block

\* std::vector::reserve in place of resize: the size stays what it was.
ResizedExternalSharedMem_reserve(uiSize, uiNewSize) == uiSize

\* std::vector::resize(n): the size afterwards.
ResizedExternalSharedMem(uiSize, uiNewSize) == uiNewSize

\* The call of the executor with the next work size of the caller: the work
\* size is assigned to the accelerator's base, then validated; an accepted
\* launch resizes the external shared memory and enters the loop over bz.
Launch ==
    /\ epc = "idle"
    /\ pending # <<>>
    /\ LET workSize == Head(pending) IN
        /\ pending' = Tail(pending)
        /\ launches' = launches + 1
        /\ pre' = [workSize |-> workSize,
                   m_WorkSize |-> m_WorkSize,
                   m_v3uiGridBlockIdx |-> m_v3uiGridBlockIdx,
                   m_vvuiSharedMem |-> m_vvuiSharedMem,
                   m_vuiExternalSharedMem |-> m_vuiExternalSharedMem,
                   output |-> output]
        /\ m_WorkSize' = workSize
        /\ kernelCalls' = EmptyBag
        /\ externPtrs' = {}
        /\ output' = {}
        /\ args' = [args EXCEPT !.value = "caller"]
        /\ argSeen' = {}
        /\ IF Exceeds(Prod(workSize.block), getSizeBlockKernelsLinearMax)
           THEN /\ thrown' = TRUE
                /\ UNCHANGED <<epc, bz, m_vuiExternalSharedMem, externStore, heapNext>>
           ELSE /\ thrown' = FALSE
                /\ LET n == ResizedExternalSharedMem(m_vuiExternalSharedMem,
                                getBlockSharedExternMemSizeBytes(BoundBlockExtent(workSize)))
                   IN  /\ m_vuiExternalSharedMem' = n
                       /\ IF n > externStore.capacity
                          THEN /\ externStore' = [data |-> heapNext, capacity |-> n]
                               /\ heapNext' = heapNext + 1
                          ELSE UNCHANGED <<externStore, heapNext>>
                /\ bz' = 0
                /\ epc' = "for_bz"
    /\ UNCHANGED <<kernel, tmpl, original, nthreads_var, m_v3uiGridBlockIdx, m_vvuiSharedMem>>
    /\ UNCHANGED <<bx, by, slot, seen>>
    /\ UNCHANGED <<teamVars, atomicVars, indexVars, viewVars, printVars>>

\* The teardown also resets the work size.
ForBz_resetsWorkSize ==
    /\ epc = "for_bz"
    /\ IF bz < getSizeGridBlocks[3]
       THEN /\ m_v3uiGridBlockIdx' = [m_v3uiGridBlockIdx EXCEPT ![3] = bz]
            /\ by' = 0
            /\ epc' = "for_by"
            /\ UNCHANGED <<m_vvuiSharedMem, m_vuiExternalSharedMem>>
       ELSE /\ m_vvuiSharedMem' = <<>>
            /\ m_vuiExternalSharedMem' = 0
            /\ epc' = "idle"
            /\ UNCHANGED <<m_v3uiGridBlockIdx, by>>
    /\ m_WorkSize' = IF bz < getSizeGridBlocks[3]
                     THEN m_WorkSize
                     ELSE [grid |-> ZeroVec, block |-> ZeroVec]
    /\ UNCHANGED <<externStore, heapNext, bx, bz>>
    /\ UNCHANGED <<callerVars, teamVars, kernelVars, atomicVars, indexVars, viewVars, printVars>>

(***************************************************************************)
(* KernelExecutor::operator(): the loops over the blocks.                  *)
(***************************************************************************)
\* for(bz ...): the test, and the first statement of the body; after the
\* loop the shared memory is deleted and the call returns.
ForBz ==
    /\ epc = "for_bz"
    /\ IF bz < getSizeGridBlocks[3]
       THEN /\ m_v3uiGridBlockIdx' = [m_v3uiGridBlockIdx EXCEPT ![3] = bz]
            /\ by' = 0
            /\ epc' = "for_by"
            /\ UNCHANGED <<m_vvuiSharedMem, m_vuiExternalSharedMem>>
       ELSE /\ m_vvuiSharedMem' = <<>>
            /\ m_vuiExternalSharedMem' = 0
            /\ epc' = "idle"
            /\ UNCHANGED <<m_v3uiGridBlockIdx, by>>
    /\ UNCHANGED <<m_WorkSize, externStore, heapNext, bx, bz>>
    /\ UNCHANGED <<callerVars, teamVars, kernelVars, atomicVars, indexVars, viewVars, printVars>>

\* for(by ...): the test, and the first statement of the body; ++bz after it.
ForBy ==
    /\ epc = "for_by"
    /\ IF by < getSizeGridBlocks[2]
       THEN /\ m_v3uiGridBlockIdx' = [m_v3uiGridBlockIdx EXCEPT ![2] = by]
            /\ bx' = 0
            /\ epc' = "for_bx"
            /\ UNCHANGED bz
       ELSE /\ bz' = bz + 1
            /\ epc' = "for_bz"
            /\ UNCHANGED <<m_v3uiGridBlockIdx, bx>>
    /\ UNCHANGED <<m_WorkSize, m_vvuiSharedMem, m_vuiExternalSharedMem, by>>
    /\ UNCHANGED <<externStore, heapNext>>
    /\ UNCHANGED <<callerVars, teamVars, kernelVars, atomicVars, indexVars, viewVars, printVars>>

\* '#pragma omp parallel num_threads(n)' with dynamic adjustment disabled: a
\* team of n threads. The clause requires a positive n; for n = 0 the
\* behaviour is unspecified: the runtime forms the team as if the clause were
\* absent, from its own setting.
TeamSize(uiNumKernelsInBlock) ==
    IF uiNumKernelsInBlock = 0
    THEN nthreads_var
    ELSE uiNumKernelsInBlock

\* Where a thread of the team enters the kernel body.
KernelEntry ==
    IF kernel = "array" THEN "kernel"
    ELSE IF kernel = "shared" THEN "alloc"
    ELSE "atomic"

\* The loop over bx left one iteration early.
ForBx_skipsLast ==
    /\ epc = "for_bx"
    /\ IF bx + 1 < getSizeGridBlocks[1]
       THEN /\ m_v3uiGridBlockIdx' = [m_v3uiGridBlockIdx EXCEPT ![1] = bx]
            /\ LET n == TeamSize(getSizeBlockKernelsLinear) IN
                /\ pc' = [t \in 0..(n - 1) |-> KernelEntry]
                /\ calls' = [t \in 0..(n - 1) |-> 0]
                /\ passed' = [t \in 0..(n - 1) |-> 0]
                /\ seen' = [t \in 0..(n - 1) |-> {}]
                /\ ret' = [t \in 0..(n - 1) |-> <<>>]
            /\ blockBase' = Len(m_vvuiSharedMem)
            /\ barCount' = 0
            /\ barGen' = 0
            /\ slot' = {}
            /\ epc' = "parallel"
            /\ UNCHANGED by
       ELSE /\ by' = by + 1
            /\ epc' = "for_by"
            /\ UNCHANGED <<m_v3uiGridBlockIdx, pc, calls, passed, seen, barCount, barGen, slot>>
            /\ UNCHANGED <<ret, blockBase>>
    /\ UNCHANGED <<m_WorkSize, m_vvuiSharedMem, m_vuiExternalSharedMem, bx, bz, kernelCalls>>
    /\ UNCHANGED <<externStore, heapNext, externPtrs, output, args, argSeen>>
    /\ UNCHANGED <<callerVars, atomicVars, indexVars, viewVars, printVars>>

\* for(bx ...): the test, the body up to the start of the parallel region;
\* ++by after the loop.
ForBx ==
    /\ epc = "for_bx"
    /\ IF bx < getSizeGridBlocks[1]
       THEN /\ m_v3uiGridBlockIdx' = [m_v3uiGridBlockIdx EXCEPT ![1] = bx]
            /\ LET n == TeamSize(getSizeBlockKernelsLinear) IN
                /\ pc' = [t \in 0..(n - 1) |-> KernelEntry]
                /\ calls' = [t \in 0..(n - 1) |-> 0]
                /\ passed' = [t \in 0..(n - 1) |-> 0]
                /\ seen' = [t \in 0..(n - 1) |-> {}]
                /\ ret' = [t \in 0..(n - 1) |-> <<>>]
            /\ blockBase' = Len(m_vvuiSharedMem)
            /\ barCount' = 0
            /\ barGen' = 0
            /\ slot' = {}
            /\ epc' = "parallel"
            /\ UNCHANGED by
       ELSE /\ by' = by + 1
            /\ epc' = "for_by"
            /\ UNCHANGED <<m_v3uiGridBlockIdx, pc, calls, passed, seen, barCount, barGen, slot>>
            /\ UNCHANGED <<ret, blockBase>>
    /\ UNCHANGED <<m_WorkSize, m_vvuiSharedMem, m_vuiExternalSharedMem, bx, bz, kernelCalls>>
    /\ UNCHANGED <<externStore, heapNext, externPtrs, output, args, argSeen>>
    /\ UNCHANGED <<callerVars, atomicVars, indexVars, viewVars, printVars>>

\* The master leaves the region without the join of the team.
EndParallel_masterOnly ==
    /\ epc = "parallel"
    /\ 0 \in Team /\ pc[0] = "end"
    /\ pc' = NoTeam
    /\ calls' = NoTeam
    /\ passed' = NoTeam
    /\ seen' = NoTeam
    /\ ret' = NoTeam
    /\ barCount' = 0
    /\ barGen' = 0
    /\ slot' = {}
    /\ bx' = bx + 1
    /\ epc' = "for_bx"
    /\ UNCHANGED <<by, bz, blockBase, kernelCalls, externPtrs, output, args, argSeen>>
    /\ UNCHANGED <<callerVars, accVars, atomicVars, indexVars, viewVars, printVars>>

\* The end of the parallel region: every thread of the team has finished the
\* structured block; the master continues with ++bx.
EndParallel ==
    /\ epc = "parallel"
    /\ \A t \in Team : pc[t] = "end"
    /\ pc' = NoTeam
    /\ calls' = NoTeam
    /\ passed' = NoTeam
    /\ seen' = NoTeam
    /\ ret' = NoTeam
    /\ barCount' = 0
    /\ barGen' = 0
    /\ slot' = {}
    /\ bx' = bx + 1
    /\ epc' = "for_bx"
    /\ UNCHANGED <<by, bz, blockBase, kernelCalls, externPtrs, output, args, argSeen>>
    /\ UNCHANGED <<callerVars, accVars, atomicVars, indexVars, viewVars, printVars>>

(***************************************************************************)
(* The threads of a team: the kernel body, and the barrier.                *)
(***************************************************************************)
\* The barrier lets the waiting threads go one arrival early.
BarrierComplete_oneShort(uiArrived, uiNumThreads) == uiArrived + 1 >= uiNumThreads

\* '#pragma omp barrier': the episode is complete when every thread of the
\* team that binds to the region has arrived.
BarrierComplete(uiArrived, uiNumThreads) == uiArrived = uiNumThreads

\* A thread arrives at the barrier and starts to wait.
BarrierEnter(t) ==
    /\ calls' = [calls EXCEPT ![t] = @ + 1]
    /\ IF BarrierComplete(barCount + 1, Cardinality(Team))
       THEN barCount' = 0 /\ barGen' = barGen + 1
       ELSE barCount' = barCount + 1 /\ UNCHANGED barGen

\* The linear index of a coordinate within an extent, x fastest.
linearize(coord, extent) ==
    coord[1] + coord[2] * extent[1] + coord[3] * extent[1] * extent[2]

\* The array after the store of a value at an offset.
Written(array, offset, value) ==
    {w \in array : w[1] # offset} \cup {<<offset, value>>}

\* The caller's argument after std::forward<TArgs>(args) has initialised the
\* kernel's by-value parameter: an lvalue is copied from, an rvalue is moved
\* from. (Moves by two threads of a team are unordered; each is taken as one
\* step.)
Forwarded(a) ==
    IF a.category = "rvalue" THEN [a EXCEPT !.value = "moved_from"] ELSE a

\* The invocation of the kernel body by thread t, up to its barrier call:
\* the kernel reads its indices, writes its element of the shared array and
\* writes the output element of its block.
\* With a zero-sized x or y extent the index derivation divides by zero: the
\* division traps and ends the process, or yields what Div and Mod define.
KernelBegin(t) ==
    /\ epc = "parallel"
    /\ t \in Team
    /\ pc[t] = "kernel"
    /\ \/ /\ kernelCalls' = kernelCalls (+)
                SetToBag({<<getIdxGridBlock, getIdxBlockKernel(t, IndexWorkSize.block)>>})
          /\ slot' = slot \cup {t}
          /\ output' = Written(output, linearize(getIdxGridBlock, getSizeGridBlocks),
                                linearize(getIdxGridBlock, getSizeGridBlocks) + 1)
          /\ argSeen' = argSeen \cup {args.value}
          /\ args' = Forwarded(args)
          /\ pc' = [pc EXCEPT ![t] = "sync"]
          /\ UNCHANGED epc
       \/ /\ IndexWorkSize.block[2] * IndexWorkSize.block[1] = 0
          /\ epc' = "aborted"
          /\ UNCHANGED <<kernelCalls, slot, pc, output, args, argSeen>>
    /\ UNCHANGED <<bx, by, bz, calls, passed, barCount, barGen, seen>>
    /\ UNCHANGED <<ret, blockBase, externPtrs>>
    /\ UNCHANGED <<callerVars, accVars, atomicVars, indexVars, viewVars, printVars>>

\* AccOpenMp::syncBlockKernels() called by the kernel body: arrival.
SyncBlockKernels(t) ==
    /\ epc = "parallel"
    /\ t \in Team
    /\ pc[t] = "sync"
    /\ BarrierEnter(t)
    /\ pc' = [pc EXCEPT ![t] = "wait"]
    /\ UNCHANGED <<passed, ret, blockBase, kernelVars>>
    /\ UNCHANGED <<callerVars, accVars, loopVars, atomicVars, indexVars, viewVars, printVars>>

\* The test left out: every thread of the team allocates.
IsAllocator_every(t) == TRUE

\* if(::omp_get_thread_num() == 0)
IsAllocator(t) == t = 0

\* Where a thread continues after the barrier it waits in.
AfterBarrier(t) ==
    CASE pc[t] = "wait" -> "read"
      [] pc[t] = "wait_end" -> "end"
      [] pc[t] = "alloc_wait1" -> IF IsAllocator(t) THEN "alloc_emplace" ELSE "alloc_sync2"
      [] pc[t] = "alloc_wait2" -> "alloc_ret"

\* A waiting thread leaves the barrier once its episode is complete.
BarrierPass(t) ==
    /\ epc = "parallel"
    /\ t \in Team
    /\ pc[t] \in {"wait", "wait_end", "alloc_wait1", "alloc_wait2"}
    /\ barGen >= calls[t]
    /\ passed' = [passed EXCEPT ![t] = calls[t]]
    /\ pc' = [pc EXCEPT ![t] = AfterBarrier(t)]
    /\ UNCHANGED <<calls, barCount, barGen, ret, blockBase, kernelVars>>
    /\ UNCHANGED <<callerVars, accVars, loopVars, atomicVars, indexVars, viewVars, printVars>>

\* The kernel body after its barrier call: it reads the whole shared array.
KernelRead(t) ==
    /\ epc = "parallel"
    /\ t \in Team
    /\ pc[t] = "read"
    /\ seen' = [seen EXCEPT ![t] = slot]
    /\ pc' = [pc EXCEPT ![t] = "ret"]
    /\ UNCHANGED <<calls, passed, barCount, barGen, ret, blockBase>>
    /\ UNCHANGED <<slot, kernelCalls, externPtrs, output, args, argSeen>>
    /\ UNCHANGED <<callerVars, accVars, loopVars, atomicVars, indexVars, viewVars, printVars>>

\* The kernel body returns and the thread calls syncBlockKernels() before
\* the region ends ("wait for all threads to finish").
KernelReturn_freesEarly(t) ==
    /\ epc = "parallel"
    /\ t \in Team
    /\ pc[t] = "ret"
    /\ BarrierEnter(t)
    /\ pc' = [pc EXCEPT ![t] = "wait_end"]
    /\ m_vvuiSharedMem' = <<>>
    /\ UNCHANGED <<m_WorkSize, m_v3uiGridBlockIdx, m_vuiExternalSharedMem, externStore, heapNext>>
    /\ UNCHANGED <<passed, ret, blockBase, kernelVars>>
    /\ UNCHANGED <<callerVars, loopVars, atomicVars, indexVars, viewVars, printVars>>

\* The return of thread t from the kernel body: it calls the barrier that
\* ends the parallel region's body.
KernelReturn(t) ==
    /\ epc = "parallel"
    /\ t \in Team
    /\ pc[t] = "ret"
    /\ BarrierEnter(t)
    /\ pc' = [pc EXCEPT ![t] = "wait_end"]
    /\ UNCHANGED <<passed, ret, blockBase, kernelVars>>
    /\ UNCHANGED <<callerVars, accVars, loopVars, atomicVars, indexVars, viewVars, printVars>>

(***************************************************************************)
(* The kernel that uses block shared memory: it calls allocBlockSharedMem   *)
(* NumAllocCalls times, its thread 0 writing the number of the call into    *)
(* the segment returned, then calls getBlockSharedExternMem and returns.    *)
(***************************************************************************)
\* The last element of a non-empty sequence.
Back(list) == list[Len(list)]

\* The bytes of the std::vector<uint8_t> that emplace_back(UiNumElements)
\* constructs for allocBlockSharedMem<T, UiNumElements>.
SegmentBytes(sizeofT, UiNumElements) == UiNumElements

\* The segment stored over the last one in place of a new element.
EmplaceBack_assign(list, segment) ==
    IF list = <<>> THEN <<segment>> ELSE [list EXCEPT ![Len(list)] = segment]

\* m_vvuiSharedMem.emplace_back(...): the list afterwards.
EmplaceBack(list, segment) == Append(list, segment)

\* allocBlockSharedMem: the barrier that assures every thread has left the
\* kernel code before the allocation.
AllocSync1(t) ==
    /\ epc = "parallel"
    /\ t \in Team
    /\ pc[t] = "alloc"
    /\ BarrierEnter(t)
    /\ pc' = [pc EXCEPT ![t] = "alloc_wait1"]
    /\ UNCHANGED <<passed, ret, blockBase, kernelVars>>
    /\ UNCHANGED <<callerVars, accVars, loopVars, atomicVars, indexVars, viewVars, printVars>>

\* allocBlockSharedMem: the allocating thread appends the segment.
AllocEmplace(t) ==
    /\ epc = "parallel"
    /\ t \in Team
    /\ pc[t] = "alloc_emplace"
    /\ m_vvuiSharedMem' = EmplaceBack(m_vvuiSharedMem,
            [data |-> heapNext,
             size |-> SegmentBytes(tmpl.sizeofT, tmpl.UiNumElements),
             content |-> 0])
    /\ heapNext' = heapNext + 1
    /\ pc' = [pc EXCEPT ![t] = "alloc_sync2"]
    /\ UNCHANGED <<m_WorkSize, m_v3uiGridBlockIdx, m_vuiExternalSharedMem, externStore>>
    /\ UNCHANGED <<calls, passed, barCount, barGen, ret, blockBase, kernelVars>>
    /\ UNCHANGED <<callerVars, loopVars, atomicVars, indexVars, viewVars, printVars>>

\* The second barrier left out: the thread goes on to read the list.
AllocSync2_noBarrier(t) ==
    /\ epc = "parallel"
    /\ t \in Team
    /\ pc[t] = "alloc_sync2"
    /\ pc' = [pc EXCEPT ![t] = "alloc_ret"]
    /\ UNCHANGED <<calls, passed, barCount, barGen, ret, blockBase, kernelVars>>
    /\ UNCHANGED <<callerVars, accVars, loopVars, atomicVars, indexVars, viewVars, printVars>>

\* allocBlockSharedMem: the barrier that makes the threads wait for the
\* allocation.
AllocSync2(t) ==
    /\ epc = "parallel"
    /\ t \in Team
    /\ pc[t] = "alloc_sync2"
    /\ BarrierEnter(t)
    /\ pc' = [pc EXCEPT ![t] = "alloc_wait2"]
    /\ UNCHANGED <<passed, ret, blockBase, kernelVars>>
    /\ UNCHANGED <<callerVars, accVars, loopVars, atomicVars, indexVars, viewVars, printVars>>

\* Whether the kernel makes a further call of allocBlockSharedMem.
MoreAllocCalls(made) == made < NumAllocCalls

\* allocBlockSharedMem: return m_vvuiSharedMem.back().data(). Thread 0 of
\* the kernel goes on to write into the segment.
AllocReturn(t) ==
    /\ epc = "parallel"
    /\ t \in Team
    /\ pc[t] = "alloc_ret"
    /\ m_vvuiSharedMem # <<>>
    /\ ret' = [ret EXCEPT ![t] = Append(@, Back(m_vvuiSharedMem).data)]
    /\ pc' = [pc EXCEPT ![t] =
                IF t = 0 THEN "seg_write"
                ELSE IF MoreAllocCalls(Len(ret[t]) + 1) THEN "alloc" ELSE "extern"]
    /\ UNCHANGED <<calls, passed, barCount, barGen, blockBase, kernelVars>>
    /\ UNCHANGED <<callerVars, accVars, loopVars, atomicVars, indexVars, viewVars, printVars>>

\* The kernel's thread 0 writes the number of the call into the segment it
\* was returned last.
SegWrite(t) ==
    /\ epc = "parallel"
    /\ t \in Team
    /\ pc[t] = "seg_write"
    /\ m_vvuiSharedMem' =
            [i \in DOMAIN m_vvuiSharedMem |->
                IF m_vvuiSharedMem[i].data = Back(ret[t])
                THEN [m_vvuiSharedMem[i] EXCEPT !.content = Len(ret[t])]
                ELSE m_vvuiSharedMem[i]]
    /\ pc' = [pc EXCEPT ![t] = IF MoreAllocCalls(Len(ret[t])) THEN "alloc" ELSE "extern"]
    /\ UNCHANGED <<m_WorkSize, m_v3uiGridBlockIdx, m_vuiExternalSharedMem, externStore, heapNext>>
    /\ UNCHANGED <<calls, passed, barCount, barGen, ret, blockBase, kernelVars>>
    /\ UNCHANGED <<callerVars, loopVars, atomicVars, indexVars, viewVars, printVars>>

\* getBlockSharedExternMem: return m_vuiExternalSharedMem.data().
GetBlockSharedExternMem(t) ==
    /\ epc = "parallel"
    /\ t \in Team
    /\ pc[t] = "extern"
    /\ externPtrs' = externPtrs \cup {externStore.data}
    /\ pc' = [pc EXCEPT ![t] = "ret"]
    /\ UNCHANGED <<calls, passed, barCount, barGen, ret, blockBase>>
    /\ UNCHANGED <<slot, seen, kernelCalls, output, args, argSeen>>
    /\ UNCHANGED <<callerVars, accVars, loopVars, atomicVars, indexVars, viewVars, printVars>>

SharedThreadStep ==
    \E t \in 0..(getSizeBlockKernelsLinearMax - 1) :
        \/ AllocSync1(t)
        \/ BarrierPass(t)
        \/ AllocEmplace(t)
        \/ AllocSync2(t)
        \/ AllocReturn(t)
        \/ SegWrite(t)
        \/ GetBlockSharedExternMem(t)
        \/ KernelReturn(t)

ThreadStep ==
    \E t \in 0..(getSizeBlockKernelsLinearMax - 1) :
        \/ KernelBegin(t)
        \/ SyncBlockKernels(t)
        \/ BarrierPass(t)
        \/ KernelRead(t)
        \/ KernelReturn(t)

(***************************************************************************)
(* The launch of one work size on a newly constructed accelerator.         *)
(***************************************************************************)
\* AccOpenMp(): the fields after construction; no launch is under way.
InitAcc ==
    /\ m_WorkSize = [grid |-> ZeroVec, block |-> ZeroVec]
    /\ m_v3uiGridBlockIdx = ZeroVec
    /\ m_vvuiSharedMem = <<>>
    /\ m_vuiExternalSharedMem = 0
    /\ externStore = [data |-> 0, capacity |-> 0]
    /\ heapNext = 1
    /\ epc = "idle"
    /\ bx = 0 /\ by = 0 /\ bz = 0
    /\ pc = NoTeam /\ calls = NoTeam /\ passed = NoTeam /\ seen = NoTeam
    /\ ret = NoTeam
    /\ blockBase = 0
    /\ barCount = 0 /\ barGen = 0
    /\ slot = {}
    /\ kernelCalls = EmptyBag
    /\ externPtrs = {}
    /\ output = {}
    /\ argSeen = {}
    /\ launches = 0
    /\ thrown = FALSE
    /\ pre = [workSize |-> [grid |-> ZeroVec, block |-> ZeroVec],
              m_WorkSize |-> [grid |-> ZeroVec, block |-> ZeroVec],
              m_v3uiGridBlockIdx |-> ZeroVec,
              m_vvuiSharedMem |-> <<>>,
              m_vuiExternalSharedMem |-> 0,
              output |-> {}]

\* The addresses atomicOp is called with.
AtomicAddrs == 1..NumAtomicAddrs

\* No atomicOp is in progress.
InitNoAtomic ==
    /\ m_ompLock = NoThread
    /\ addr = [a \in AtomicAddrs |-> 0]
    /\ apc = NoTeam /\ aop = NoTeam /\ old = NoTeam /\ atarget = NoTeam

\* No index derivation is under examination.
InitNoIndex ==
    /\ ix_e = ZeroVec /\ ix_t = 0 /\ ix_c = <<>>

\* No pitch function is under examination.
InitNoPitch ==
    /\ TIdx = 0 /\ TVal = 0 /\ NDEBUG = FALSE /\ pitchRet = <<>>

\* No view is printed.
InitNoPrint ==
    /\ frames = <<>> /\ os = <<>> /\ reads = <<>> /\ fault = FALSE

\* No view exists.
InitNoView ==
    /\ view = [extent |-> <<>>, sizeofElem |-> 1]
    /\ InitNoPitch
    /\ InitNoPrint

\* The extent of one block, or of one thread.
OneBlock == [i \in 1..3 |-> 1]

\* The accelerator was constructed by AccOpenMp(), not as a copy.
NotCopied ==
    [copied |-> FALSE,
     m_WorkSize |-> [grid |-> ZeroVec, block |-> ZeroVec],
     m_v3uiGridBlockIdx |-> ZeroVec]

\* The arguments a caller can pass: an lvalue, or a temporary.
CallerArgs == [category : {"lvalue", "rvalue"}, value : {"caller"}]

LvalueArgs == [category |-> "lvalue", value |-> "caller"]

\* The executor is instantiated with the kernel that writes the shared array
\* and the output; it allocates no block shared memory.
ArrayKernel ==
    /\ kernel = "array"
    /\ tmpl = [sizeofT |-> 1, UiNumElements |-> 1]

Init ==
    /\ InitAcc
    /\ args = LvalueArgs
    /\ original = NotCopied
    /\ InitNoAtomic
    /\ InitNoIndex
    /\ InitNoView
    /\ ArrayKernel
    /\ nthreads_var \in 1..getSizeBlockKernelsLinearMax
    /\ \E workSize \in WorkSizes : pending = <<workSize>>

Next ==
    \/ Launch
    \/ ForBz
    \/ ForBy
    \/ ForBx
    \/ EndParallel
    \/ ThreadStep

Spec == Init /\ [][Next]_vars

(***************************************************************************)
(* The launch of one work size with an argument of either value category,   *)
(* the block of at least one thread.                                        *)
(***************************************************************************)
InitArgs ==
    /\ InitAcc
    /\ InitNoAtomic
    /\ InitNoIndex
    /\ InitNoView
    /\ ArrayKernel
    /\ args \in CallerArgs
    /\ original = NotCopied
    /\ nthreads_var = getSizeBlockKernelsLinearMax
    /\ \E workSize \in WorkSizes :
           /\ Prod(workSize.block) > 0
           /\ pending = <<workSize>>

SpecArgs == InitArgs /\ [][Next]_vars

(***************************************************************************)
(* The launch of one work size on an accelerator that was copy-constructed  *)
(* from another: from a newly constructed one, or from one that has         *)
(* completed a launch of a row of blocks of one thread each.                *)
(***************************************************************************)
\* The fields of an accelerator after its completed launch of a work size.
AfterLaunchOf(workSize) ==
    [copied |-> TRUE,
     m_WorkSize |-> workSize,
     m_v3uiGridBlockIdx |-> [i \in 1..3 |-> workSize.grid[i] - 1]]

Originals ==
    {[NotCopied EXCEPT !.copied = TRUE]} \cup
    {AfterLaunchOf(w) : w \in {v \in WorkSizes :
        /\ v.block = OneBlock
        /\ v.grid[1] > 0 /\ v.grid[2] = 1 /\ v.grid[3] = 1}}

InitCopy ==
    /\ InitAcc
    /\ InitNoAtomic
    /\ InitNoIndex
    /\ InitNoView
    /\ ArrayKernel
    /\ args = LvalueArgs
    /\ original \in Originals
    /\ nthreads_var = getSizeBlockKernelsLinearMax
    /\ \E workSize \in WorkSizes :
           /\ Prod(workSize.block) > 0
           /\ pending = <<workSize>>

SpecCopy == InitCopy /\ [][Next]_vars

(***************************************************************************)
(* The launch of a work size of at least one block and one thread, on a     *)
(* newly constructed accelerator or after a launch that was rejected.       *)
(***************************************************************************)
InitAfterReject ==
    /\ InitAcc
    /\ InitNoAtomic
    /\ InitNoIndex
    /\ InitNoView
    /\ ArrayKernel
    /\ args = LvalueArgs
    /\ original = NotCopied
    /\ nthreads_var = getSizeBlockKernelsLinearMax
    /\ \E rejected \in WorkSizes, workSize \in WorkSizes :
           /\ rejected.grid = OneBlock
           /\ Exceeds(Prod(rejected.block), getSizeBlockKernelsLinearMax)
           /\ Prod(workSize.grid) > 0
           /\ Prod(workSize.block) > 0
           /\ ~Exceeds(Prod(workSize.block), getSizeBlockKernelsLinearMax)
           /\ pending \in {<<workSize>>, <<rejected, workSize>>}

SpecAfterReject == InitAfterReject /\ [][Next]_vars

(***************************************************************************)
(* The launch of the kernel that uses block shared memory, with a block of  *)
(* at least one thread.                                                     *)
(***************************************************************************)
TemplateArgs ==
    {a \in [sizeofT : 1..MaxSegmentBytes, UiNumElements : 1..MaxSegmentBytes] :
        a.sizeofT * a.UiNumElements <= MaxSegmentBytes}

InitShared ==
    /\ InitAcc
    /\ args = LvalueArgs
    /\ original = NotCopied
    /\ InitNoAtomic
    /\ InitNoIndex
    /\ InitNoView
    /\ kernel = "shared"
    /\ tmpl \in TemplateArgs
    /\ nthreads_var = getSizeBlockKernelsLinearMax
    /\ \E workSize \in WorkSizes :
           /\ Prod(workSize.block) > 0
           /\ pending = <<workSize>>

NextShared ==
    \/ Launch
    \/ ForBz
    \/ ForBy
    \/ ForBx
    \/ EndParallel
    \/ SharedThreadStep

SpecShared == InitShared /\ [][NextShared]_vars

(***************************************************************************)
(* Two consecutive launches of the shared-memory kernel on one accelerator: *)
(* a grid of one block each, the first with a row of threads.               *)
(***************************************************************************)
InitRelaunch ==
    /\ InitAcc
    /\ args = LvalueArgs
    /\ original = NotCopied
    /\ InitNoAtomic
    /\ InitNoIndex
    /\ InitNoView
    /\ kernel = "shared"
    /\ tmpl = [sizeofT |-> 1, UiNumElements |-> 1]
    /\ nthreads_var = getSizeBlockKernelsLinearMax
    /\ \E first \in WorkSizes, second \in WorkSizes :
           /\ first.grid = OneBlock /\ second.grid = OneBlock
           /\ first.block[1] > 0 /\ first.block[2] = 1 /\ first.block[3] = 1
           /\ Prod(second.block) > 0
           /\ pending = <<first, second>>

SpecRelaunch == InitRelaunch /\ [][NextShared]_vars

(***************************************************************************)
(* IndexOpenMp::getIdxBlockKernel examined as a function: one call for a   *)
(* block extent without zero-sized axis and a thread number of its team.   *)
(***************************************************************************)
InitIndex ==
    /\ InitAcc
    /\ args = LvalueArgs
    /\ original = NotCopied
    /\ InitNoAtomic
    /\ ArrayKernel
    /\ nthreads_var = getSizeBlockKernelsLinearMax
    /\ pending = <<>>
    /\ ix_e \in Vec3(1..MaxIdxExtent)
    /\ ix_t \in 0..(Prod(ix_e) - 1)
    /\ ix_c = <<>>
    /\ InitNoView

IndexCall ==
    /\ ix_c = <<>>
    /\ ix_c' = getIdxBlockKernel(ix_t, ix_e)
    /\ UNCHANGED <<ix_e, ix_t>>
    /\ UNCHANGED <<callerVars, accVars, loopVars, teamVars, kernelVars, atomicVars,
                   viewVars, printVars>>

NextIndex == IndexCall

SpecIndex == InitIndex /\ [][NextIndex]_vars

(***************************************************************************)
(* atomicOp: NumAtomicThreads threads of one team invoke one operation     *)
(* each on the same address through the same AtomicOpenMp.                 *)
(***************************************************************************)
AtomicThreads == 0..(NumAtomicThreads - 1)

OpNames == {"Exch", "Add", "Sub", "Min", "Max", "Cas"}

\* The operand each operation is invoked with (for Cas: compare, then value).
OpValue(op) ==
    CASE op = "Exch" -> 2
      [] op = "Add" -> 1
      [] op = "Sub" -> 1
      [] op = "Min" -> 1
      [] op = "Max" -> 3
      [] op = "Cas" -> 5
OpCompare(op) == 0

\* TOp::op(addr, value): the value the operation stores for the prior value.
OpResult(op, prior) ==
    CASE op = "Exch" -> OpValue(op)
      [] op = "Add" -> prior + OpValue(op)
      [] op = "Sub" -> prior - OpValue(op)
      [] op = "Min" -> IF OpValue(op) < prior THEN OpValue(op) ELSE prior
      [] op = "Max" -> IF OpValue(op) > prior THEN OpValue(op) ELSE prior
      [] op = "Cas" -> IF prior = OpCompare(op) THEN OpValue(op) ELSE prior

\* The lock is taken without waiting for its holder.
LockAvailable_always(holder) == TRUE

\* omp_set_lock / entry of '#pragma omp critical (AtomicOp)': blocks while
\* another thread holds the lock.
LockAvailable(holder) == holder = NoThread

\* A lock for each address: the region is entered while no thread inside
\* targets the same address.
AtomicSetLock_perAddress(t) ==
    /\ t \in DOMAIN apc
    /\ apc[t] = "set_lock"
    /\ \A h \in m_ompLock : atarget[h] # atarget[t]
    /\ m_ompLock' = m_ompLock \cup {t}
    /\ apc' = [apc EXCEPT ![t] = "op_load"]
    /\ UNCHANGED <<addr, atarget, aop, old>>
    /\ UNCHANGED <<callerVars, accVars, loopVars, teamVars, kernelVars, indexVars, viewVars, printVars>>

\* omp_set_lock(&atomic.m_ompLock), or the entry of the critical section.
AtomicSetLock(t) ==
    /\ t \in DOMAIN apc
    /\ apc[t] = "set_lock"
    /\ LockAvailable(m_ompLock)
    /\ m_ompLock' = {t}
    /\ apc' = [apc EXCEPT ![t] = "op_load"]
    /\ UNCHANGED <<addr, atarget, aop, old>>
    /\ UNCHANGED <<callerVars, accVars, loopVars, teamVars, kernelVars, indexVars, viewVars, printVars>>

\* The lock is given up as soon as the prior value is read.
AtomicOpLoad_unlocks(t) ==
    /\ t \in DOMAIN apc
    /\ apc[t] = "op_load"
    /\ old' = [old EXCEPT ![t] = addr[atarget[t]]]
    /\ apc' = [apc EXCEPT ![t] = "op_store"]
    /\ m_ompLock' = NoThread
    /\ UNCHANGED <<addr, atarget, aop>>
    /\ UNCHANGED <<callerVars, accVars, loopVars, teamVars, kernelVars, indexVars, viewVars, printVars>>

\* old = TOp::op(addr, value), first half: the prior value is read.
AtomicOpLoad(t) ==
    /\ t \in DOMAIN apc
    /\ apc[t] = "op_load"
    /\ old' = [old EXCEPT ![t] = addr[atarget[t]]]
    /\ apc' = [apc EXCEPT ![t] = "op_store"]
    /\ UNCHANGED <<m_ompLock, addr, atarget, aop>>
    /\ UNCHANGED <<callerVars, accVars, loopVars, teamVars, kernelVars, indexVars, viewVars, printVars>>

\* old = TOp::op(addr, value), second half: the result is stored.
AtomicOpStore(t) ==
    /\ t \in DOMAIN apc
    /\ apc[t] = "op_store"
    /\ addr' = [addr EXCEPT ![atarget[t]] = OpResult(aop[t], old[t])]
    /\ apc' = [apc EXCEPT ![t] = "unset_lock"]
    /\ UNCHANGED <<m_ompLock, atarget, aop, old>>
    /\ UNCHANGED <<callerVars, accVars, loopVars, teamVars, kernelVars, indexVars, viewVars, printVars>>

\* The return without omp_unset_lock.
AtomicUnsetLock_keepsLock(t) ==
    /\ t \in DOMAIN apc
    /\ apc[t] = "unset_lock"
    /\ apc' = [apc EXCEPT ![t] = "done"]
    /\ UNCHANGED <<m_ompLock, addr, atarget, aop, old>>
    /\ UNCHANGED <<callerVars, accVars, loopVars, teamVars, kernelVars, indexVars, viewVars, printVars>>

\* omp_unset_lock(&atomic.m_ompLock), or the exit of the critical section;
\* return old.
AtomicUnsetLock(t) ==
    /\ t \in DOMAIN apc
    /\ apc[t] = "unset_lock"
    /\ m_ompLock' = NoThread
    /\ apc' = [apc EXCEPT ![t] = "done"]
    /\ UNCHANGED <<addr, atarget, aop, old>>
    /\ UNCHANGED <<callerVars, accVars, loopVars, teamVars, kernelVars, indexVars, viewVars, printVars>>

InitAtomic ==
    /\ InitAcc
    /\ args = LvalueArgs
    /\ original = NotCopied
    /\ InitNoIndex
    /\ InitNoView
    /\ ArrayKernel
    /\ nthreads_var = getSizeBlockKernelsLinearMax
    /\ pending = <<>>
    /\ m_ompLock = NoThread
    /\ addr = [a \in AtomicAddrs |-> 0]
    /\ atarget = [t \in AtomicThreads |-> 1]
    /\ apc = [t \in AtomicThreads |-> "set_lock"]
    /\ aop \in [AtomicThreads -> OpNames]
    /\ old = [t \in AtomicThreads |-> 0]

NextAtomic ==
    \E t \in AtomicThreads :
        \/ AtomicSetLock(t)
        \/ AtomicOpLoad(t)
        \/ AtomicOpStore(t)
        \/ AtomicUnsetLock(t)

SpecAtomic == InitAtomic /\ [][NextAtomic]_vars

(***************************************************************************)
(* The kernel that counts: each thread calls atomicOp once, adding 1 at the  *)
(* first address, and returns.                                              *)
(***************************************************************************)
\* A function without the element t of its domain.
Without(f, t) == [u \in DOMAIN f \ {t} |-> f[u]]

\* The kernel body of thread t calls atomicOp.
KernelAtomicCall(t) ==
    /\ epc = "parallel"
    /\ t \in Team
    /\ pc[t] = "atomic"
    /\ pc' = [pc EXCEPT ![t] = "in_atomic"]
    /\ apc' = (t :> "set_lock") @@ apc
    /\ aop' = (t :> "Add") @@ aop
    /\ old' = (t :> 0) @@ old
    /\ atarget' = (t :> 1) @@ atarget
    /\ UNCHANGED <<m_ompLock, addr>>
    /\ UNCHANGED <<calls, passed, barCount, barGen, ret, blockBase, kernelVars>>
    /\ UNCHANGED <<callerVars, accVars, loopVars, indexVars, viewVars, printVars>>

\* atomicOp has returned to the kernel body of thread t.
KernelAtomicReturn(t) ==
    /\ epc = "parallel"
    /\ t \in Team
    /\ pc[t] = "in_atomic"
    /\ t \in DOMAIN apc
    /\ apc[t] = "done"
    /\ pc' = [pc EXCEPT ![t] = "ret"]
    /\ apc' = Without(apc, t)
    /\ aop' = Without(aop, t)
    /\ old' = Without(old, t)
    /\ atarget' = Without(atarget, t)
    /\ UNCHANGED <<m_ompLock, addr>>
    /\ UNCHANGED <<calls, passed, barCount, barGen, ret, blockBase, kernelVars>>
    /\ UNCHANGED <<callerVars, accVars, loopVars, indexVars, viewVars, printVars>>

AtomicThreadStep ==
    \E t \in 0..(getSizeBlockKernelsLinearMax - 1) :
        \/ KernelAtomicCall(t)
        \/ AtomicSetLock(t)
        \/ AtomicOpLoad(t)
        \/ AtomicOpStore(t)
        \/ AtomicUnsetLock(t)
        \/ KernelAtomicReturn(t)
        \/ BarrierPass(t)
        \/ KernelReturn(t)

(***************************************************************************)
(* The launch of a row of blocks of any of the three kernels, the block of  *)
(* at least one thread, under a scheduler that lets a step happen whenever  *)
(* one can.                                                                 *)
(***************************************************************************)
InitLive ==
    /\ InitAcc
    /\ args = LvalueArgs
    /\ original = NotCopied
    /\ InitNoAtomic
    /\ InitNoIndex
    /\ InitNoView
    /\ kernel \in {"array", "shared", "atomic"}
    /\ tmpl = [sizeofT |-> 1, UiNumElements |-> 1]
    /\ nthreads_var = getSizeBlockKernelsLinearMax
    /\ \E workSize \in WorkSizes :
           /\ workSize.grid[1] > 0 /\ workSize.grid[2] = 1 /\ workSize.grid[3] = 1
           /\ Prod(workSize.block) > 0
           /\ pending = <<workSize>>

NextLive ==
    \/ Launch
    \/ ForBz
    \/ ForBy
    \/ ForBx
    \/ EndParallel
    \/ ThreadStep
    \/ SharedThreadStep
    \/ AtomicThreadStep

SpecLive == InitLive /\ [][NextLive]_vars /\ WF_vars(NextLive)

\* Concurrent invocations of atomicOp through one AtomicOpenMp, each on an
\* address of its own choice.
InitAtomicAddrs ==
    /\ InitAcc
    /\ args = LvalueArgs
    /\ original = NotCopied
    /\ InitNoIndex
    /\ InitNoView
    /\ ArrayKernel
    /\ nthreads_var = getSizeBlockKernelsLinearMax
    /\ pending = <<>>
    /\ m_ompLock = NoThread
    /\ addr = [a \in AtomicAddrs |-> 0]
    /\ atarget \in [AtomicThreads -> AtomicAddrs]
    /\ apc = [t \in AtomicThreads |-> "set_lock"]
    /\ aop \in [AtomicThreads -> {"Add", "Exch"}]
    /\ old = [t \in AtomicThreads |-> 0]

SpecAtomicAddrs == InitAtomicAddrs /\ [][NextAtomic]_vars

(***************************************************************************)
(* Properties of a launch.                                                 *)
(***************************************************************************)
\* The coordinates within an extent.
Coords(extent) ==
    (0..(extent[1] - 1)) \X (0..(extent[2] - 1)) \X (0..(extent[3] - 1))

InExtent(coord, extent) ==
    \A i \in 1..3 : 0 <= coord[i] /\ coord[i] < extent[i]

\* A call of the executor has returned normally.
LaunchCompleted == launches > 0 /\ epc = "idle" /\ ~thrown

\* C1: a launch whose block-thread extent product exceeds the backend's
\* maximum raises the capacity error, and no kernel body is invoked in it.
C1_CapacityRejection ==
    (launches > 0 /\ Prod(pre.workSize.block) > getSizeBlockKernelsLinearMax)
        => (thrown /\ epc = "idle" /\ Team = {} /\ kernelCalls = EmptyBag)

C1_Witness ==
    /\ launches > 0
    /\ Prod(pre.workSize.block) > getSizeBlockKernelsLinearMax
    /\ thrown

\* C2: after a launch rejected with the capacity error the accelerator's
\* bound work division, grid-block index, shared-memory segment list and
\* extern shared-memory buffer are what they were before the call.
C2_NoPartialSideEffects ==
    thrown =>
        /\ m_WorkSize = pre.m_WorkSize
        /\ m_v3uiGridBlockIdx = pre.m_v3uiGridBlockIdx
        /\ m_vvuiSharedMem = pre.m_vvuiSharedMem
        /\ m_vuiExternalSharedMem = pre.m_vuiExternalSharedMem

\* What does hold after a rejection: only the work division has changed.
RejectionLeavesAllButWorkSize ==
    thrown =>
        /\ m_WorkSize = pre.workSize
        /\ m_v3uiGridBlockIdx = pre.m_v3uiGridBlockIdx
        /\ m_vvuiSharedMem = pre.m_vvuiSharedMem
        /\ m_vuiExternalSharedMem = pre.m_vuiExternalSharedMem

\* C3: while a kernel thread runs, the product of the bound block-thread
\* extent is at most the backend maximum; a launch is rejected exactly when
\* the product is strictly greater, so a product equal to it is accepted.
C3_ValidatedExtent ==
    /\ Team # {} => Prod(m_WorkSize.block) <= getSizeBlockKernelsLinearMax
    /\ launches > 0 =>
        (thrown <=> Prod(pre.workSize.block) > getSizeBlockKernelsLinearMax)

C3_Witness ==
    /\ Team # {}
    /\ Prod(m_WorkSize.block) = getSizeBlockKernelsLinearMax
    /\ ~thrown

\* C6: every block-thread index and grid-block index a kernel invocation
\* observes lies within its extent on every axis.
C6_CoordinatesWithinExtent ==
    \A call \in BagToSet(kernelCalls) :
        /\ InExtent(call[1], m_WorkSize.grid)
        /\ InExtent(call[2], m_WorkSize.block)

\* What does hold: the coordinates are within their extent whenever the block
\* extent has no zero-sized axis.
CoordinatesWithinPositiveExtent ==
    Prod(m_WorkSize.block) > 0 => C6_CoordinatesWithinExtent

\* C9: no thread leaves its k-th barrier call before every thread of the
\* block has made its k-th call, and every thread that reads the shared
\* array after the barrier sees the write of every thread of the block.
C9_BarrierHappensBefore ==
    /\ \A t \in Team : \A u \in Team : passed[t] <= calls[u]
    /\ \A t \in Team : pc[t] \in {"ret", "wait_end", "end"} => seen[t] = Team

C9_Witness ==
    /\ Cardinality(Team) = MaxThreads
    /\ \A t \in Team : pc[t] = "end" /\ seen[t] = Team

\* C10: in a completed launch the kernel body has been invoked exactly once
\* for every pair of a grid-block coordinate and a block-thread coordinate,
\* and for nothing else.
C10_OncePerCoordinate ==
    LaunchCompleted =>
        kernelCalls = SetToBag(Coords(m_WorkSize.grid) \X Coords(m_WorkSize.block))

\* What does hold: exactly once per pair whenever the block extent has no
\* zero-sized axis.
OncePerCoordinateOfPositiveExtent ==
    (LaunchCompleted /\ Prod(m_WorkSize.block) > 0) => C10_OncePerCoordinate

(***************************************************************************)
(* Properties of the index derivation.                                     *)
(***************************************************************************)
\* C4: for a block extent (e0, e1, e2) with all axes >= 1 and a thread number
\* t below its product, getIdxBlockKernel returns
\* (t mod e0, (t div e0) mod e1, t div (e0 * e1)).
C4_BlockKernelIndex ==
    ix_c # <<>> =>
        ix_c = << ix_t % ix_e[1],
                  (ix_t \div ix_e[1]) % ix_e[2],
                  ix_t \div (ix_e[1] * ix_e[2]) >>

C4_Witness ==
    /\ ix_c # <<>>
    /\ ix_c[1] > 0 /\ ix_c[2] > 0 /\ ix_c[3] > 0

\* C5: linearizing the coordinate derived for t gives t, delinearizing that
\* gives the coordinate again, and no other thread number of the block gets
\* the same coordinate.
C5_LinearizationRoundTrip ==
    ix_c # <<>> =>
        /\ linearize(ix_c, ix_e) = ix_t
        /\ getIdxBlockKernel(linearize(ix_c, ix_e), ix_e) = ix_c
        /\ \A t2 \in 0..(Prod(ix_e) - 1) :
            t2 # ix_t => getIdxBlockKernel(t2, ix_e) # ix_c

C5_Witness ==
    /\ ix_c # <<>>
    /\ ix_e = <<MaxIdxExtent, MaxIdxExtent, MaxIdxExtent>>
    /\ ix_t = Prod(ix_e) - 1

(***************************************************************************)
(* Properties of atomicOp.                                                 *)
(***************************************************************************)
AtomicAllDone == \A t \in DOMAIN apc : apc[t] = "done"

\* The orders in which the invocations can have taken effect.
AtomicOrders ==
    {f \in [1..NumAtomicThreads -> AtomicThreads] :
        \A i \in 1..NumAtomicThreads : \A j \in 1..NumAtomicThreads :
            f[i] = f[j] => i = j}

\* The value stored after the first k invocations of an order, from 0.
RECURSIVE ValueAfter(_, _)
ValueAfter(f, k) ==
    IF k = 0 THEN 0 ELSE OpResult(aop[f[k]], ValueAfter(f, k - 1))

\* C7: when every thread performs one atomic add of 1 on a counter that
\* starts at 0, the final value is the number of threads and the returned
\* prior values are 0 .. N-1, each returned once.
C7_AtomicConservation ==
    (DOMAIN apc # {} /\ AtomicAllDone /\ \A t \in DOMAIN apc : aop[t] = "Add") =>
        /\ addr[1] = NumAtomicThreads
        /\ {old[t] : t \in DOMAIN apc} = 0..(NumAtomicThreads - 1)

C7_Witness ==
    /\ DOMAIN apc # {}
    /\ AtomicAllDone
    /\ \A t \in DOMAIN apc : aop[t] = "Add"

\* C8: the invocations are linearizable: there is a total order of them in
\* which each returns the value stored just before it and the final value is
\* the result of applying the operations in that order.
C8_AtomicLinearizable ==
    (DOMAIN apc # {} /\ AtomicAllDone) =>
        \E f \in AtomicOrders :
            /\ \A k \in 1..NumAtomicThreads : old[f[k]] = ValueAfter(f, k - 1)
            /\ addr[1] = ValueAfter(f, NumAtomicThreads)

C8_Witness ==
    /\ DOMAIN apc # {}
    /\ AtomicAllDone
    /\ Cardinality({aop[t] : t \in DOMAIN apc}) = NumAtomicThreads
    /\ addr[1] # 0

(***************************************************************************)
(* The block loops iterated from the last block to the first: the loop      *)
(* counters count the iterations, the index bound is the mirrored one.      *)
(***************************************************************************)
ForBzRev ==
    /\ epc = "for_bz"
    /\ IF bz < getSizeGridBlocks[3]
       THEN /\ m_v3uiGridBlockIdx' = [m_v3uiGridBlockIdx EXCEPT ![3] = getSizeGridBlocks[3] - 1 - bz]
            /\ by' = 0
            /\ epc' = "for_by"
            /\ UNCHANGED <<m_vvuiSharedMem, m_vuiExternalSharedMem>>
       ELSE /\ m_vvuiSharedMem' = <<>>
            /\ m_vuiExternalSharedMem' = 0
            /\ epc' = "idle"
            /\ UNCHANGED <<m_v3uiGridBlockIdx, by>>
    /\ UNCHANGED <<m_WorkSize, externStore, heapNext, bx, bz>>
    /\ UNCHANGED <<callerVars, teamVars, kernelVars, atomicVars, indexVars, viewVars, printVars>>

ForByRev ==
    /\ epc = "for_by"
    /\ IF by < getSizeGridBlocks[2]
       THEN /\ m_v3uiGridBlockIdx' = [m_v3uiGridBlockIdx EXCEPT ![2] = getSizeGridBlocks[2] - 1 - by]
            /\ bx' = 0
            /\ epc' = "for_bx"
            /\ UNCHANGED bz
       ELSE /\ bz' = bz + 1
            /\ epc' = "for_bz"
            /\ UNCHANGED <<m_v3uiGridBlockIdx, bx>>
    /\ UNCHANGED <<m_WorkSize, m_vvuiSharedMem, m_vuiExternalSharedMem, by>>
    /\ UNCHANGED <<externStore, heapNext>>
    /\ UNCHANGED <<callerVars, teamVars, kernelVars, atomicVars, indexVars, viewVars, printVars>>

ForBxRev ==
    /\ epc = "for_bx"
    /\ IF bx < getSizeGridBlocks[1]
       THEN /\ m_v3uiGridBlockIdx' = [m_v3uiGridBlockIdx EXCEPT ![1] = getSizeGridBlocks[1] - 1 - bx]
            /\ LET n == TeamSize(getSizeBlockKernelsLinear) IN
                /\ pc' = [t \in 0..(n - 1) |-> KernelEntry]
                /\ calls' = [t \in 0..(n - 1) |-> 0]
                /\ passed' = [t \in 0..(n - 1) |-> 0]
                /\ seen' = [t \in 0..(n - 1) |-> {}]
                /\ ret' = [t \in 0..(n - 1) |-> <<>>]
            /\ blockBase' = Len(m_vvuiSharedMem)
            /\ barCount' = 0
            /\ barGen' = 0
            /\ slot' = {}
            /\ epc' = "parallel"
            /\ UNCHANGED by
       ELSE /\ by' = by + 1
            /\ epc' = "for_by"
            /\ UNCHANGED <<m_v3uiGridBlockIdx, pc, calls, passed, seen, barCount, barGen, slot>>
            /\ UNCHANGED <<ret, blockBase>>
    /\ UNCHANGED <<m_WorkSize, m_vvuiSharedMem, m_vuiExternalSharedMem, bx, bz, kernelCalls>>
    /\ UNCHANGED <<externStore, heapNext, externPtrs, output, args, argSeen>>
    /\ UNCHANGED <<callerVars, atomicVars, indexVars, viewVars, printVars>>

\* The first launch runs the loops as written, the second the mirrored loops.
ForwardDispatch == launches = 1 /\ (ForBz \/ ForBy \/ ForBx)

ReversedDispatch == launches > 1 /\ (ForBzRev \/ ForByRev \/ ForBxRev)

\* A work size launched twice on one accelerator, the block of at least one
\* thread.
InitReversed ==
    /\ InitAcc
    /\ args = LvalueArgs
    /\ original = NotCopied
    /\ InitNoAtomic
    /\ InitNoIndex
    /\ InitNoView
    /\ ArrayKernel
    /\ nthreads_var = getSizeBlockKernelsLinearMax
    /\ \E workSize \in WorkSizes :
           /\ Prod(workSize.block) > 0
           /\ pending = <<workSize, workSize>>

NextReversed ==
    \/ Launch
    \/ ForwardDispatch
    \/ ReversedDispatch
    \/ EndParallel
    \/ ThreadStep

SpecReversed == InitReversed /\ [][NextReversed]_vars

(***************************************************************************)
(* Launches with an empty domain.                                          *)
(***************************************************************************)
\* C11: a launch whose grid extent or block extent has a zero-sized axis
\* raises no error and invokes the kernel body not once.
C11_ZeroAxisNoInvocation ==
    (launches > 0 /\ (Prod(m_WorkSize.grid) = 0 \/ Prod(m_WorkSize.block) = 0))
        => (~thrown /\ epc # "aborted" /\ kernelCalls = EmptyBag)

(***************************************************************************)
(* Block shared memory.                                                    *)
(***************************************************************************)
\* A block begins: its team exists and no thread has taken a step.
BlockBegins ==
    /\ epc = "parallel"
    /\ \A t \in Team : pc[t] = "alloc" /\ ret[t] = <<>> /\ calls[t] = 0

\* C12: at the moment a block begins, the list of shared-memory segments is
\* empty: no segment outlives the block that created it.
C12_SegmentsEmptyAtBlockBegin == BlockBegins => m_vvuiSharedMem = <<>>

\* C13: every segment appended by allocBlockSharedMem<T, N> has at least
\* N * sizeof(T) bytes.
C13_SegmentHoldsElements ==
    \A i \in DOMAIN m_vvuiSharedMem :
        m_vvuiSharedMem[i].size >= tmpl.UiNumElements * tmpl.sizeofT

\* The allocations thread 0 has performed in the running block.
AllocationsMade ==
    IF pc[0] \in {"alloc_sync2", "alloc_wait2", "alloc_ret"}
    THEN Len(ret[0]) + 1
    ELSE Len(ret[0])

\* C14: each collective call of allocBlockSharedMem appends exactly one
\* segment, and every thread of the block is returned the address of the
\* segment that call appended, whatever the interleaving.
C14_OneSegmentOneAddress ==
    (epc = "parallel" /\ kernel = "shared") =>
        /\ Len(m_vvuiSharedMem) = blockBase + AllocationsMade
        /\ \A t \in Team : \A k \in 1..Len(ret[t]) :
               /\ ret[t][k] = m_vvuiSharedMem[blockBase + k].data
               /\ \A u \in Team : k <= Len(ret[u]) => ret[u][k] = ret[t][k]

C14_Witness ==
    /\ epc = "parallel" /\ kernel = "shared"
    /\ Cardinality(Team) > 1
    /\ \A t \in Team : Len(ret[t]) = NumAllocCalls
    /\ Len(m_vvuiSharedMem) = blockBase + NumAllocCalls

\* Thread 0 has written into the segment of its k-th call.
SegmentWritten(k) ==
    \/ Len(ret[0]) > k
    \/ Len(ret[0]) = k /\ pc[0] # "seg_write"

\* C15: the k-th call of allocBlockSharedMem in a block returns a segment
\* distinct from those of the calls before it, and a segment once returned
\* keeps its address, its size and the content written into it while the
\* block runs.
C15_RepeatedAllocAppends ==
    (epc = "parallel" /\ kernel = "shared") =>
        \A t \in Team : \A k \in 1..Len(ret[t]) :
            /\ \A j \in 1..(k - 1) : ret[t][j] # ret[t][k]
            /\ blockBase + k <= Len(m_vvuiSharedMem)
            /\ m_vvuiSharedMem[blockBase + k].data = ret[t][k]
            /\ m_vvuiSharedMem[blockBase + k].size
                  = SegmentBytes(tmpl.sizeofT, tmpl.UiNumElements)
            /\ m_vvuiSharedMem[blockBase + k].content
                  = IF SegmentWritten(k) THEN k ELSE 0

C15_Witness ==
    /\ epc = "parallel" /\ kernel = "shared"
    /\ \A t \in Team : pc[t] = "end" /\ Len(ret[t]) = NumAllocCalls
    /\ NumAllocCalls > 1
    /\ m_vvuiSharedMem[blockBase + 1].content = 1

\* C16: a segment leaves the list only when no thread of any block is left
\* in the kernel body or before its terminal barrier.
C16_NoReleaseWhileRunning ==
    [][(\E i \in DOMAIN m_vvuiSharedMem :
            \A j \in DOMAIN m_vvuiSharedMem' :
                m_vvuiSharedMem'[j].data # m_vvuiSharedMem[i].data)
        => (Team = {} /\ epc = "for_bz")]_vars

C16_Witness ==
    /\ LaunchCompleted
    /\ kernel = "shared"
    /\ m_vvuiSharedMem = <<>>
    /\ heapNext > externStore.data + 1

\* C17: while a launch runs, the external shared memory has the size the
\* kernel's size function gives for the bound block extent, its storage
\* holds that size at one address, and getBlockSharedExternMem has returned
\* that address to every thread of every block.
C17_ExternMemFixed ==
    (epc \in {"for_bz", "for_by", "for_bx", "parallel"}) =>
        /\ m_vuiExternalSharedMem = getBlockSharedExternMemSizeBytes(m_WorkSize.block)
        /\ externStore.capacity >= m_vuiExternalSharedMem
        /\ externPtrs \subseteq {externStore.data}
        /\ externStore.data # 0

C17_Witness ==
    /\ epc = "parallel" /\ kernel = "shared"
    /\ bx + by + bz > 0
    /\ Cardinality(Team) > 1
    /\ \A t \in Team : pc[t] = "ret"
    /\ externPtrs = {externStore.data}

\* C18: after a completed launch the accelerator's fields are those of a
\* newly constructed accelerator.
C18_StateClearedAfterLaunch ==
    LaunchCompleted =>
        /\ m_vvuiSharedMem = <<>>
        /\ m_vuiExternalSharedMem = 0
        /\ m_v3uiGridBlockIdx = ZeroVec
        /\ m_WorkSize = [grid |-> ZeroVec, block |-> ZeroVec]

\* C19: throughout an accepted second launch the external shared memory has
\* the size the second launch requested, and its storage holds that size.
C19_SecondLaunchExternSize ==
    (launches > 1 /\ epc \in {"for_bz", "for_by", "for_bx", "parallel"}) =>
        /\ m_vuiExternalSharedMem = getBlockSharedExternMemSizeBytes(pre.workSize.block)
        /\ externStore.capacity >= m_vuiExternalSharedMem

C19_Witness ==
    /\ launches > 1
    /\ epc = "parallel"
    /\ externPtrs # {}
    /\ getBlockSharedExternMemSizeBytes(pre.workSize.block)
         > getBlockSharedExternMemSizeBytes(pre.m_WorkSize.block)
    /\ m_vuiExternalSharedMem = getBlockSharedExternMemSizeBytes(pre.workSize.block)

(***************************************************************************)
(* Independence of the blocks.                                             *)
(***************************************************************************)
\* C20: a launch whose blocks each write their own output offset leaves the
\* same output whether the blocks were iterated forward or reversed.
C20_BlockOrderIndependence ==
    (launches > 1 /\ LaunchCompleted) => output = pre.output

C20_Witness ==
    /\ launches > 1 /\ LaunchCompleted
    /\ Prod(m_WorkSize.grid) = MaxBlocks
    /\ m_WorkSize.grid[1] > 1
    /\ Cardinality(output) = MaxBlocks
    /\ output = pre.output

(***************************************************************************)
(* The dispatch loop and the state it owns.                                *)
(***************************************************************************)
\* C21: blocks run one at a time: threads exist only inside the parallel
\* region of the block being executed, a team is formed only when no thread
\* of an earlier block is left, and it is dissolved only when each of its
\* threads has passed the terminal barrier.
C21_OneBlockAtATime ==
    /\ [](Team # {} => epc \in {"parallel", "aborted"})
    /\ [][Team' # Team =>
            \/ Team = {} /\ epc = "for_bx"
            \/ /\ Team' = {}
               /\ \A t \in Team : pc[t] = "end" /\ passed[t] = calls[t]]_vars

C21_Witness ==
    /\ epc = "for_bx"
    /\ bx > 1
    /\ Team = {}
    /\ getSizeBlockKernelsLinear > 1

\* C22: the grid-block index changes only in the dispatch loop while no
\* thread exists, and while a block runs getIdxGridBlock is the coordinate
\* of that block.
C22_GridBlockIdxStable ==
    /\ [](epc = "parallel" => getIdxGridBlock = <<bx, by, bz>>)
    /\ [][m_v3uiGridBlockIdx' # m_v3uiGridBlockIdx =>
            (Team = {} /\ epc \in {"for_bz", "for_by", "for_bx"})]_vars

C22_Witness ==
    /\ epc = "parallel"
    /\ bx > 0 /\ by > 0
    /\ \E t \in Team : pc[t] = "read"
    /\ getIdxGridBlock = <<bx, by, bz>>

\* C23: the work size is bound at the start of a launch to the caller's
\* value and no later step of the launch changes it.
C23_WorkSizeBoundOnce ==
    /\ [](launches > 0 => m_WorkSize = pre.workSize)
    /\ [][m_WorkSize' # m_WorkSize => (epc = "idle" /\ launches' = launches + 1)]_vars

C23_Witness ==
    /\ LaunchCompleted
    /\ kernel = "shared"
    /\ heapNext > externStore.data + 1
    /\ Prod(m_WorkSize.grid) > 1
    /\ m_WorkSize = pre.workSize

\* The list as the threads read it: the addresses and sizes of its segments.
Segments(list) == [i \in DOMAIN list |-> [data |-> list[i].data, size |-> list[i].size]]

\* C28: the segment list changes only in the dispatch loop while no thread
\* exists, or by thread 0 between the two barriers of allocBlockSharedMem;
\* no thread is about to read the list while another is about to append.
C28_ListMutationGuarded ==
    /\ [](\A t \in Team : \A u \in Team :
            ~(pc[t] = "alloc_emplace" /\ pc[u] = "alloc_ret"))
    /\ [][Segments(m_vvuiSharedMem') # Segments(m_vvuiSharedMem) =>
            \/ Team = {} /\ epc = "for_bz"
            \/ /\ 0 \in Team /\ pc[0] = "alloc_emplace"
               /\ \A u \in Team \ {0} :
                      pc[u] \in {"alloc_wait1", "alloc_sync2", "alloc_wait2"}]_vars

C28_Witness ==
    /\ epc = "parallel" /\ kernel = "shared"
    /\ Cardinality(Team) > 2
    /\ pc[0] = "alloc_sync2"
    /\ Len(ret[0]) > 0
    /\ \E u \in Team : pc[u] = "alloc_wait2"
    /\ \E u \in Team : pc[u] = "alloc_wait1"

\* The grid blocks the kernel has been invoked in.
BlocksStarted == {c[1] : c \in BagToSet(kernelCalls)}

\* C30: the blocks run in ascending linear order, x fastest: while a block
\* runs, every block of smaller linear index has run and no block of larger
\* linear index has started.
C30_AscendingBlockOrder ==
    epc = "parallel" =>
        /\ \A g \in BlocksStarted :
               linearize(g, getSizeGridBlocks) <= linearize(<<bx, by, bz>>, getSizeGridBlocks)
        /\ \A g \in Coords(getSizeGridBlocks) :
               linearize(g, getSizeGridBlocks) < linearize(<<bx, by, bz>>, getSizeGridBlocks)
                   => g \in BlocksStarted

C30_Witness ==
    /\ epc = "parallel"
    /\ bx > 0 /\ by > 0
    /\ getSizeBlockKernelsLinear > 0
    /\ Cardinality(BlocksStarted) = linearize(<<bx, by, bz>>, getSizeGridBlocks) + 1

(***************************************************************************)
(* The arguments of the kernel.                                            *)
(***************************************************************************)
\* C24: every invocation of a launch receives the argument value the caller
\* passed.
C24_ArgumentsForwardedUnchanged == \A v \in argSeen : v = "caller"

(***************************************************************************)
(* Ownership of the state the index derivation reads.                      *)
(***************************************************************************)
\* C29: what a kernel thread reads through getIdx is the grid-block index
\* and the work size of the accelerator that executes the launch, also on a
\* copy-constructed accelerator.
C29_IndexReadsOwnState ==
    epc = "parallel" =>
        /\ getIdxGridBlock = m_v3uiGridBlockIdx
        /\ IndexWorkSize = m_WorkSize

(***************************************************************************)
(* The mutual-exclusion region of the atomic operations.                   *)
(***************************************************************************)
\* The threads between the entry of the region and the end of TOp::op.
InsideAtomicOp == {t \in DOMAIN apc : apc[t] \in {"op_load", "op_store"}}

\* C27: at most one thread is inside the apply-and-store step of atomicOp,
\* whatever addresses the invocations target, and the lock is free whenever
\* no invocation is in progress.
C27_OneRegionForAllAddresses ==
    /\ Cardinality(InsideAtomicOp) <= 1
    /\ \A t \in InsideAtomicOp : m_ompLock = {t}
    /\ (\A t \in DOMAIN apc : apc[t] \in {"set_lock", "done"}) => m_ompLock = NoThread

C27_Witness ==
    \E t \in DOMAIN apc : \E u \in DOMAIN apc :
        /\ atarget[t] # atarget[u]
        /\ apc[t] = "op_store"
        /\ apc[u] = "set_lock"
        /\ \E v \in DOMAIN apc : apc[v] = "done" /\ atarget[v] = atarget[u]

(***************************************************************************)
(* Progress of a launch.                                                   *)
(***************************************************************************)
\* C25: an accepted launch whose kernel invocations terminate and agree in
\* their barrier and allocBlockSharedMem calls passes every terminal
\* barrier, executes the teardown and returns.
C25_LaunchCompletes == (launches > 0 /\ ~thrown) ~> LaunchCompleted

C25_Witness ==
    /\ LaunchCompleted
    /\ kernel = "atomic"
    /\ Prod(m_WorkSize.grid) > 1
    /\ Prod(m_WorkSize.block) > 1
    /\ addr[1] = Prod(m_WorkSize.grid) * Prod(m_WorkSize.block)

(***************************************************************************)
(* A launch after a rejected launch.                                       *)
(***************************************************************************)
\* C31: the launch of a valid work size performs the same invocations and
\* ends in the same state on a newly constructed accelerator and on one
\* whose previous launch was rejected: in both, one invocation for each
\* coordinate, the output of every block, and fields that depend on the
\* work size alone.
C31_UsableAfterRejection ==
    (LaunchCompleted /\ pending = <<>>) =>
        /\ kernelCalls = SetToBag(Coords(m_WorkSize.grid) \X Coords(m_WorkSize.block))
        /\ output = {<<linearize(g, m_WorkSize.grid), linearize(g, m_WorkSize.grid) + 1>> :
                        g \in Coords(m_WorkSize.grid)}
        /\ argSeen = {"caller"}
        /\ m_WorkSize = pre.workSize
        /\ m_v3uiGridBlockIdx = [i \in 1..3 |-> m_WorkSize.grid[i] - 1]
        /\ m_vvuiSharedMem = <<>>
        /\ m_vuiExternalSharedMem = 0
        /\ externStore = [data |-> 1,
                          capacity |-> getBlockSharedExternMemSizeBytes(m_WorkSize.block)]
        /\ heapNext = externStore.data + 1
        /\ Team = {}

C31_Witness ==
    /\ LaunchCompleted /\ pending = <<>>
    /\ launches > 1
    /\ Exceeds(Prod(pre.m_WorkSize.block), getSizeBlockKernelsLinearMax)
    /\ Prod(m_WorkSize.grid) > 1
    /\ Prod(m_WorkSize.block) > 1
    /\ BagCardinality(kernelCalls) = Prod(m_WorkSize.grid) * Prod(m_WorkSize.block)

(***************************************************************************)
(* Memory views (mem/view/Traits.hpp).  A view is its extent vector and    *)
(* the size of its element type; the C++ component [i] of the extent is    *)
(* the TLA+ component [i + 1].                                             *)
(***************************************************************************)
Views ==
    UNION {[extent : [1..d -> 0..MaxViewExtent], sizeofElem : 1..MaxSizeofElem] :
              d \in 1..MaxDim}

\* dim::Dim<TView>::value
Dim(v) == Len(v.extent)

\* extent::getExtent<Tidx>(view)
getExtent(Tidx, v) == v.extent[Tidx + 1]

\* The conversion of an unsigned value to idx::Idx<TView>.
Idx(n) == n % (2 ^ IdxBits)

GetPitchBytesDefault_rowOnly(i, v) ==
    IF i < Dim(v)
    THEN Idx(getExtent(i, v) * v.sizeofElem)
    ELSE Idx(v.sizeofElem)

RECURSIVE GetPitchBytes(_, _)

\* traits::detail::GetPitchBytesDefault<TIdx, TView>::getPitchBytesDefault:
\* the specialization for TIdx < Dim - 1, for TIdx = Dim - 1, for TIdx = Dim.
GetPitchBytesDefault(i, v) ==
    IF i < Dim(v) - 1
    THEN Idx(getExtent(i, v) * GetPitchBytes(i + 1, v))
    ELSE IF i = Dim(v) - 1
         THEN Idx(getExtent(Dim(v) - 1, v) * v.sizeofElem)
         ELSE Idx(v.sizeofElem)

\* traits::GetPitchBytes<TIdx, TView>::getPitchBytes, not specialized.
GetPitchBytes(i, v) == GetPitchBytesDefault(i, v)

\* mem::view::getPitchBytes<Tidx>(view)
view_getPitchBytes(Tidx, v) == GetPitchBytes(Tidx, v)

(***************************************************************************)
(* mem::view::getPitchBytes examined as a function: one call for a view    *)
(* and an index 0..Dim.                                                    *)
(***************************************************************************)
InitPitch ==
    /\ InitAcc
    /\ args = LvalueArgs
    /\ original = NotCopied
    /\ InitNoAtomic
    /\ InitNoIndex
    /\ ArrayKernel
    /\ nthreads_var = getSizeBlockKernelsLinearMax
    /\ pending = <<>>
    /\ view \in Views
    /\ TIdx \in 0..Dim(view)
    /\ TVal = 0 /\ NDEBUG = FALSE /\ pitchRet = <<>>
    /\ InitNoPrint

GetPitchBytesCall ==
    /\ pitchRet = <<>>
    /\ view.extent # <<>>
    /\ TVal = 0
    /\ pitchRet' = <<view_getPitchBytes(TIdx, view)>>
    /\ UNCHANGED <<view, TIdx, TVal, NDEBUG>>
    /\ UNCHANGED <<callerVars, accVars, loopVars, teamVars, kernelVars, atomicVars,
                   indexVars, printVars>>

NextPitch == GetPitchBytesCall

SpecPitch == InitPitch /\ [][NextPitch]_vars

\* ext[i] * ext[i+1] * ... * ext[D-1], and 1 for i = D.
RECURSIVE ExtentProduct(_, _)
ExtentProduct(ext, i) ==
    IF i >= Len(ext) THEN 1 ELSE ext[i + 1] * ExtentProduct(ext, i + 1)

UInt(n) == n % (2 ^ UIntBits)

\* static_cast<TVal>(n) for an unsigned n
static_cast(TValBits, n) == n % (2 ^ TValBits)

\* traits::mem::GetPitchBytes<TuiIdx, TView>::getPitchBytes
traits_mem_GetPitchBytes(TuiIdx, buf) ==
    UInt(getExtent(TuiIdx, buf) * buf.sizeofElem)

\* mem::getPitchBytes<TuiIdx, TVal>(buf)
mem_getPitchBytes(TuiIdx, TValBits, buf) ==
    static_cast(TValBits, traits_mem_GetPitchBytes(TuiIdx, buf))

\* mem::getPitchElements<TuiIdx, TVal>(buf): where the assertion is false,
\* the process is aborted unless the build defines NDEBUG.
mem_getPitchElements(TuiIdx, TValBits, buf, ndebug) ==
    LET holds == mem_getPitchBytes(TuiIdx, TValBits, buf) % buf.sizeofElem = 0
    IN  [aborted |-> ~holds /\ ~ndebug,
         value |-> static_cast(TValBits,
                       mem_getPitchBytes(TuiIdx, TValBits, buf) \div buf.sizeofElem)]

\* The widths of the result types a caller instantiates getPitchElements with.
TValWidths == {8, UIntBits}

\* The buffers: their bytes are addressable in UInt.
Buffers ==
    {b \in UNION {[extent : [1..d -> 0..MaxRowExtent], sizeofElem : 1..MaxSizeofElem] :
                     d \in 1..2} :
        b.sizeofElem * ExtentProduct(b.extent, 0) < 2 ^ UIntBits}

InitPitchElements ==
    /\ InitAcc
    /\ args = LvalueArgs
    /\ original = NotCopied
    /\ InitNoAtomic
    /\ InitNoIndex
    /\ ArrayKernel
    /\ nthreads_var = getSizeBlockKernelsLinearMax
    /\ pending = <<>>
    /\ view \in Buffers
    /\ TIdx \in 0..(Dim(view) - 1)
    /\ TVal \in TValWidths
    /\ NDEBUG \in BOOLEAN
    /\ pitchRet = <<>>
    /\ InitNoPrint

GetPitchElementsCall ==
    /\ pitchRet = <<>>
    /\ TVal # 0
    /\ pitchRet' = <<mem_getPitchElements(TIdx, TVal, view, NDEBUG)>>
    /\ UNCHANGED <<view, TIdx, TVal, NDEBUG>>
    /\ UNCHANGED <<callerVars, accVars, loopVars, teamVars, kernelVars, atomicVars,
                   indexVars, printVars>>

NextPitchElements == GetPitchElementsCall

SpecPitchElements == InitPitchElements /\ [][NextPitchElements]_vars

\* C33: getPitchElements does not violate its assertion: the pitch in bytes
\* converted to TVal is a multiple of the element size, and the returned
\* pitch in elements is the extent of the buffer at the requested index.
C33_PitchElementsIsExtent ==
    pitchRet # <<>> =>
        /\ ~pitchRet[1].aborted
        /\ mem_getPitchBytes(TIdx, TVal, view) % view.sizeofElem = 0
        /\ pitchRet[1].value = getExtent(TIdx, view)

(***************************************************************************)
(* mem::view::print (mem/view/Traits.hpp).  The stream is the sequence of  *)
(* what was written to it: one of the four strings, or the element at a    *)
(* byte offset from getPtrNative(view).  Each call of                      *)
(* detail::Print<TDim>::print is a frame [TDim, ptr, i] with its pointer   *)
(* argument, as a byte offset, and its loop counter.                       *)
(***************************************************************************)
Str(name) == [text |-> name, at |-> 0]

Elem(offset) == [text |-> "element", at |-> offset]

\* The bytes of the view's elements: what a dereference may designate.
InView(offset, v) ==
    /\ offset % v.sizeofElem = 0
    /\ offset \div v.sizeofElem < ExtentProduct(v.extent, 0)

\* 'auto const lastIdx(extent[TDim::value]-1u)': an unsigned subtraction.
lastIdx(d, v) == Idx(getExtent(d, v) - 1)

\* The call on top of the call stack.
Top == frames[Len(frames)]

\* The frames after the loop of the calling frame has taken its step, '++i'.
Increment(fs) ==
    IF fs = <<>> THEN fs
    ELSE [fs EXCEPT ![Len(fs)].i = Idx(fs[Len(fs)].i + 1)]

\* 'if(i != lastIdx) os << separator' of the frame f.
Separator(f, name) ==
    IF f.i # lastIdx(f.TDim, view) THEN <<Str(name)>> ELSE <<>>

\* The views a caller prints: every pitch is a value of idx::Idx<TView>.
PrintedViews ==
    {v \in Views : \A i \in 0..Dim(v) : v.sizeofElem * ExtentProduct(v.extent, i) < 2 ^ IdxBits}

InitPrint ==
    /\ InitAcc
    /\ args = LvalueArgs
    /\ original = NotCopied
    /\ InitNoAtomic
    /\ InitNoIndex
    /\ ArrayKernel
    /\ nthreads_var = getSizeBlockKernelsLinearMax
    /\ pending = <<>>
    /\ view \in PrintedViews
    /\ InitNoPitch
    /\ InitNoPrint

\* mem::view::print calls detail::Print<DimInt<0u>>::print with the native
\* pointer; the call begins with 'os << rowPrefix'.
PrintCall ==
    /\ view.extent # <<>>
    /\ frames = <<>> /\ os = <<>> /\ ~fault
    /\ frames' = <<[TDim |-> 0, ptr |-> 0, i |-> 0]>>
    /\ os' = <<Str("rowPrefix")>>
    /\ UNCHANGED <<reads, fault>>
    /\ UNCHANGED <<callerVars, accVars, loopVars, teamVars, kernelVars, atomicVars,
                   indexVars, viewVars>>

\* One iteration of the loop of an outer dimension calls Print<TDim + 1>
\* with the pointer advanced by i * pitch bytes.
PrintRow ==
    /\ frames # <<>> /\ ~fault
    /\ Top.TDim < Dim(view) - 1
    /\ Top.i <= lastIdx(Top.TDim, view)
    /\ LET pitch == view_getPitchBytes(Top.TDim + 1, view)
       IN  frames' = Append(frames, [TDim |-> Top.TDim + 1,
                                     ptr |-> Top.ptr + Idx(Top.i * pitch),
                                     i |-> 0])
    /\ os' = Append(os, Str("rowPrefix"))
    /\ UNCHANGED <<reads, fault>>
    /\ UNCHANGED <<callerVars, accVars, loopVars, teamVars, kernelVars, atomicVars,
                   indexVars, viewVars>>

\* One iteration of the loop of the innermost dimension: 'os << *(ptr+i)',
\* then the separator.  The dereference of an address that is no element of
\* the view is undefined: it yields some value, or it ends the process.
PrintElement ==
    /\ frames # <<>> /\ ~fault
    /\ Top.TDim = Dim(view) - 1
    /\ Top.i <= lastIdx(Top.TDim, view)
    /\ LET address == Top.ptr + Top.i * view.sizeofElem
       IN  /\ InView(address, view) \/
                  Cardinality({k \in 1..Len(reads) : ~InView(reads[k], view)}) < MaxStrayReads
           /\ reads' = Append(reads, address)
           /\ \/ /\ os' = os \o <<Elem(address)>> \o Separator(Top, "elementSeparator")
                 /\ frames' = Increment(frames)
                 /\ UNCHANGED fault
              \/ /\ ~InView(address, view)
                 /\ fault' = TRUE
                 /\ UNCHANGED <<os, frames>>
    /\ UNCHANGED <<callerVars, accVars, loopVars, teamVars, kernelVars, atomicVars,
                   indexVars, viewVars>>

\* The loop has ended: 'os << rowSuffix' and the return to the caller, whose
\* iteration ends with its separator and '++i'.
PrintReturn ==
    /\ frames # <<>> /\ ~fault
    /\ Top.i > lastIdx(Top.TDim, view)
    /\ LET caller == SubSeq(frames, 1, Len(frames) - 1)
       IN  /\ os' = os \o <<Str("rowSuffix")>> \o
                    (IF caller = <<>> THEN <<>>
                     ELSE Separator(caller[Len(caller)], "rowSeparator"))
           /\ frames' = Increment(caller)
    /\ UNCHANGED <<reads, fault>>
    /\ UNCHANGED <<callerVars, accVars, loopVars, teamVars, kernelVars, atomicVars,
                   indexVars, viewVars>>

NextPrint == PrintCall \/ PrintRow \/ PrintElement \/ PrintReturn

SpecPrint == InitPrint /\ [][NextPrint]_vars

\* print has returned.
PrintCompleted == frames = <<>> /\ os # <<>> /\ ~fault

\* The rows of dimension d whose first element is at the byte offset base:
\* rowPrefix, the extent[d] elements (or sub-rows) with a separator between
\* two of them, rowSuffix.
RECURSIVE Separated(_, _, _, _, _)
RECURSIVE Row(_, _, _)
Separated(d, base, j, n, v) ==
    IF j >= n THEN <<>>
    ELSE (IF d = Dim(v) - 1
          THEN <<Elem(base + j * v.sizeofElem)>>
          ELSE Row(d + 1, base + j * v.sizeofElem * ExtentProduct(v.extent, d + 1), v))
         \o (IF j + 1 < n
             THEN <<Str(IF d = Dim(v) - 1 THEN "elementSeparator" ELSE "rowSeparator")>>
             ELSE <<>>)
         \o Separated(d, base, j + 1, n, v)

Row(d, base, v) ==
    <<Str("rowPrefix")>> \o Separated(d, base, 0, getExtent(d, v), v) \o <<Str("rowSuffix")>>

\* C34: print reads no element outside the extent of the view, and what it
\* has written when it returns is the rows of dimension 0 as described:
\* product(extent) elements, each innermost row between rowPrefix and
\* rowSuffix with elementSeparator between two elements, each outer row
\* between rowPrefix and rowSuffix with rowSeparator between two sub-rows.
C34_PrintFormat ==
    /\ ~fault
    /\ \A k \in 1..Len(reads) : InView(reads[k], view)
    /\ PrintCompleted =>
           /\ os = Row(0, 0, view)
           /\ Cardinality({k \in 1..Len(os) : os[k].text = "element"})
                  = ExtentProduct(view.extent, 0)

=============================================================================
